---- MODULE Spec2Model ----
(***************************************************************************)
(* Model of the metric driver decomposition library:                       *)
(*   src/src/formulas.py       parse_formula, get_drivers_in_formula_order, *)
(*                             evaluate_formula                             *)
(*   src/src/decomposition.py  multiplicative_contribution                  *)
(*   src/src/utils.py          validate_decomposition                       *)
(*   src/app.py                the calls the app makes into the library     *)
(*                                                                         *)
(* Strings are sequences of one-character strings, so that the regular     *)
(* expressions, strip() and float() of the source act on characters.       *)
(***************************************************************************)
EXTENDS Integers, Sequences, FiniteSets, TLC

VARIABLES
    expr,              \* the formula argument of the call
    pc,                \* "start", then the name of the call that was made
    numerators,        \* result of parse_formula
    denominators,      \* result of parse_formula
    drivers_in_order,  \* result of get_drivers_in_formula_order
    values,            \* the values argument of evaluate_formula
    formulas_dict,     \* the formulas_dict argument of evaluate_formula
    kwargs,            \* the keyword arguments app.py passes
    outcome,           \* what evaluate_formula returned or raised
    metric_name,       \* the metric_name argument of decompose
    t0,                \* values at time 0
    t1,                \* values at time 1
    raised,            \* the exception decompose ended with, "" if none
    drivers_df,        \* the driver rows decompose returned
    outcome_info,      \* the outcome info decompose returned
    rounding_tolerance,\* the tolerance given to validate_decomposition
    is_valid,          \* the boolean validate_decomposition returned
    error_msg          \* the message validate_decomposition returned

parse_vars == <<numerators, denominators, drivers_in_order>>
eval_vars == <<values, formulas_dict, kwargs, outcome>>

decomp_vars == <<metric_name, t0, t1, raised, drivers_df, outcome_info>>

valid_vars == <<rounding_tolerance, is_valid, error_msg>>

vars == <<expr, pc, parse_vars, eval_vars, decomp_vars, valid_vars>>

(***************************************************************************)
(* Bounds                                                                  *)
(***************************************************************************)
\* longest formula string that is enumerated exhaustively
MaxLen == 5
\* largest driver value given to the evaluator
MaxVal == 2
\* the values given to a decomposition are -1, 0 and 2^0 .. 2^MaxExp
MaxExp == 2
\* a logarithm is computed to 1 / LogPrecision of ln 2
LogPrecision == 8

(***************************************************************************)
(* Lists and sets                                                          *)
(***************************************************************************)
\* the elements of a list
Range(f) == {f[i] : i \in DOMAIN f}

Min(S) == CHOOSE x \in S : \A y \in S : x <= y

(***************************************************************************)
(* Characters and strings                                                  *)
(***************************************************************************)
Digits == {"0", "1", "2", "3", "4", "5", "6", "7", "8", "9"}

\* the characters the exhaustive formulas are drawn from: two letters, a
\* digit, white space, both operators and both parentheses
Alphabet == {"A", "B", "1", " ", "*", "/", "(", ")"}

OpChars == {"*", "/"}

\* \s of the regular expressions and the characters strip() removes
IsSpace(c) == c = " "

RECURSIVE LStrip(_)
LStrip(s) ==
    IF s = <<>> THEN <<>>
    ELSE IF IsSpace(Head(s)) THEN LStrip(Tail(s)) ELSE s

RECURSIVE RStrip(_)
RStrip(s) ==
    IF s = <<>> THEN <<>>
    ELSE IF IsSpace(s[Len(s)]) THEN RStrip(SubSeq(s, 1, Len(s) - 1)) ELSE s

\* str.strip()
Strip(s) == RStrip(LStrip(s))

\* float(token) succeeds (no ValueError). The token is already stripped.
\* Covers the decimal literals that can be written with digits and one
\* point; signs, exponents, underscores and inf/nan are outside the
\* characters the model enumerates.
IsFloat(tok) ==
    /\ \A i \in 1..Len(tok) : tok[i] \in Digits \cup {"."}
    /\ \E i \in 1..Len(tok) : tok[i] \in Digits
    /\ Cardinality({i \in 1..Len(tok) : tok[i] = "."}) <= 1

\* position of the first character of s that is in the set cs, 0 if none
FirstIn(s, cs) ==
    IF \E i \in 1..Len(s) : s[i] \in cs
    THEN CHOOSE i \in 1..Len(s) :
            /\ s[i] \in cs
            /\ \A j \in 1..(i - 1) : s[j] \notin cs
    ELSE 0

\* re.split(r"\s*([*/])\s*", s): the text between matches and, because of
\* the capturing group, the operator of every match. A match starts at the
\* white space in front of the operator and ends after the white space
\* behind it.
RECURSIVE ReSplitOps(_)
ReSplitOps(s) ==
    LET j == FirstIn(s, OpChars)
    IN  IF j = 0 THEN <<s>>
        ELSE <<RStrip(SubSeq(s, 1, j - 1)), <<s[j]>>>>
                \o ReSplitOps(LStrip(SubSeq(s, j + 1, Len(s))))

\* re.split(r"\s*[*]\s*", s): no capturing group, the operators are dropped
RECURSIVE ReSplitStar(_)
ReSplitStar(s) ==
    LET j == FirstIn(s, {"*"})
    IN  IF j = 0 THEN <<s>>
        ELSE <<RStrip(SubSeq(s, 1, j - 1))>>
                \o ReSplitStar(LStrip(SubSeq(s, j + 1, Len(s))))

(***************************************************************************)
(* src/src/formulas.py                                                     *)
(***************************************************************************)
\* pattern.search(expr) for r"/(?:\s*)\(([^)]*)\)": can a match start at
\* position i: a '/', white space, '(', and a ')' somewhere behind it
OpenAfter(s, i) ==
    LET rest == LStrip(SubSeq(s, i + 1, Len(s)))
    IN  (Len(s) - Len(rest)) + 1

MatchAt(s, i) ==
    /\ s[i] = "/"
    /\ OpenAfter(s, i) <= Len(s)
    /\ s[OpenAfter(s, i)] = "("
    /\ \E k \in (OpenAfter(s, i) + 1)..Len(s) : s[k] = ")"

HasMatch(s) == \E i \in 1..Len(s) : MatchAt(s, i)

\* match.start() (as a 1-based position): the leftmost match
MatchStart(s) ==
    CHOOSE i \in 1..Len(s) :
        /\ MatchAt(s, i)
        /\ \A j \in 1..(i - 1) : ~MatchAt(s, j)

\* position of the ')' that ends the match: [^)]* stops at the first one
MatchClose(s) ==
    LET o == OpenAfter(s, MatchStart(s))
    IN  o + FirstIn(SubSeq(s, o + 1, Len(s)), {")"})

\* match.group(1)
MatchGroup(s) == SubSeq(s, OpenAfter(s, MatchStart(s)) + 1, MatchClose(s) - 1)

\* parse_slice_loop with the float() test left out: constants are kept
RECURSIVE parse_slice_loop_keeps_numbers(_, _)
parse_slice_loop_keeps_numbers(tokens, destination) ==
    IF tokens = <<>> THEN destination
    ELSE LET token == Head(tokens)
             token_stripped == Strip(token)
         IN  IF token = <<>> \/ token = <<"*">> \/ token = <<"/">>
                \/ token_stripped = <<>>
             THEN parse_slice_loop_keeps_numbers(Tail(tokens), destination)
             ELSE parse_slice_loop_keeps_numbers(Tail(tokens),
                                   Append(destination, token_stripped))

\* parse_slice_loop that reads current_op as the simple branch does: a name
\* behind "/" is not appended
RECURSIVE parse_slice_loop_by_operator(_, _, _)
parse_slice_loop_by_operator(tokens, current_op, destination) ==
    IF tokens = <<>> THEN destination
    ELSE LET token == Head(tokens)
             token_stripped == Strip(token)
         IN  IF token = <<"*">> \/ token = <<"/">>
             THEN parse_slice_loop_by_operator(Tail(tokens), token[1], destination)
             ELSE IF token = <<>> \/ token_stripped = <<>> \/ IsFloat(token_stripped)
                     \/ current_op = "/"
             THEN parse_slice_loop_by_operator(Tail(tokens), current_op, destination)
             ELSE parse_slice_loop_by_operator(Tail(tokens), current_op,
                                              Append(destination, token_stripped))

parse_slice_loop_skips_divided(tokens, destination) ==
    parse_slice_loop_by_operator(tokens, "*", destination)

\* the loop of parse_slice over the tokens: every token that is neither an
\* operator, empty nor a number goes to destination; current_op is
\* assigned but never read
RECURSIVE parse_slice_loop(_, _)
parse_slice_loop(tokens, destination) ==
    IF tokens = <<>> THEN destination
    ELSE LET token == Head(tokens)
             token_stripped == Strip(token)
         IN  IF token = <<>> \/ token = <<"*">> \/ token = <<"/">>
                \/ token_stripped = <<>> \/ IsFloat(token_stripped)
             THEN parse_slice_loop(Tail(tokens), destination)
             ELSE parse_slice_loop(Tail(tokens),
                                   Append(destination, token_stripped))

parse_slice(slice_expr, destination) ==
    parse_slice_loop(ReSplitOps(slice_expr), destination)

\* denom_loop with the float() test left out: the group's constants are kept
RECURSIVE denom_loop_keeps_numbers(_, _)
denom_loop_keeps_numbers(denom_tokens, dens) ==
    IF denom_tokens = <<>> THEN dens
    ELSE LET stripped == Strip(Head(denom_tokens))
         IN  IF stripped = <<>>
             THEN denom_loop_keeps_numbers(Tail(denom_tokens), dens)
             ELSE denom_loop_keeps_numbers(Tail(denom_tokens), Append(dens, stripped))

\* the loop over denom_tokens: the names of the parenthesized group
RECURSIVE denom_loop(_, _)
denom_loop(denom_tokens, dens) ==
    IF denom_tokens = <<>> THEN dens
    ELSE LET stripped == Strip(Head(denom_tokens))
         IN  IF stripped = <<>> \/ IsFloat(stripped)
             THEN denom_loop(Tail(denom_tokens), dens)
             ELSE denom_loop(Tail(denom_tokens), Append(dens, stripped))

\* simple_loop in which a "*" token does not set current_op back: after the
\* first "/" every name is a denominator
RECURSIVE simple_loop_sticky_division(_, _, _, _)
simple_loop_sticky_division(tokens, current_op, nums, dens) ==
    IF tokens = <<>> THEN [numerators |-> nums, denominators |-> dens]
    ELSE LET token == Head(tokens)
             token_stripped == Strip(token)
         IN  IF token = <<>> \/ token = <<"*">>
             THEN simple_loop_sticky_division(Tail(tokens), current_op, nums, dens)
             ELSE IF token = <<"/">>
                  THEN simple_loop_sticky_division(Tail(tokens), "/", nums, dens)
             ELSE IF token_stripped = <<>> \/ IsFloat(token_stripped)
                  THEN simple_loop_sticky_division(Tail(tokens), current_op, nums, dens)
             ELSE IF current_op = "*"
                  THEN simple_loop_sticky_division(Tail(tokens), current_op,
                                   Append(nums, token_stripped), dens)
                  ELSE simple_loop_sticky_division(Tail(tokens), current_op,
                                   nums, Append(dens, token_stripped))

\* the loop of the branch without a parenthesized denominator: a name goes
\* to the numerators when current_op is "*" and to the denominators
\* otherwise
RECURSIVE simple_loop(_, _, _, _)
simple_loop(tokens, current_op, nums, dens) ==
    IF tokens = <<>> THEN [numerators |-> nums, denominators |-> dens]
    ELSE LET token == Head(tokens)
             token_stripped == Strip(token)
         IN  IF token = <<>> THEN simple_loop(Tail(tokens), current_op, nums, dens)
             ELSE IF token = <<"*">> THEN simple_loop(Tail(tokens), "*", nums, dens)
             ELSE IF token = <<"/">> THEN simple_loop(Tail(tokens), "/", nums, dens)
             ELSE IF token_stripped = <<>> \/ IsFloat(token_stripped)
                  THEN simple_loop(Tail(tokens), current_op, nums, dens)
             ELSE IF current_op = "*"
                  THEN simple_loop(Tail(tokens), current_op,
                                   Append(nums, token_stripped), dens)
                  ELSE simple_loop(Tail(tokens), current_op,
                                   nums, Append(dens, token_stripped))

parse_formula(e) ==
    IF HasMatch(e)
    THEN LET numerator_expr   == SubSeq(e, 1, MatchStart(e) - 1)
             denominator_expr == MatchGroup(e)
             rest_expr        == SubSeq(e, MatchClose(e) + 1, Len(e))
             nums1            == parse_slice(numerator_expr, <<>>)
             dens             == denom_loop(ReSplitStar(denominator_expr), <<>>)
             nums2            == IF Strip(rest_expr) # <<>>
                                 THEN parse_slice(rest_expr, nums1)
                                 ELSE nums1
         IN  [numerators |-> nums2, denominators |-> dens]
    ELSE simple_loop(ReSplitOps(e), "*", <<>>, <<>>)

\* order_loop that skips what parse_formula skips: constants are dropped
RECURSIVE order_loop_drops_numbers(_, _)
order_loop_drops_numbers(tokens, drivers) ==
    IF tokens = <<>> THEN drivers
    ELSE IF Head(tokens) \notin {<<"*">>, <<"/">>} /\ ~IsFloat(Strip(Head(tokens)))
         THEN order_loop_drops_numbers(Tail(tokens), Append(drivers, Head(tokens)))
         ELSE order_loop_drops_numbers(Tail(tokens), drivers)

\* every token of the split that is not an operator; nothing is stripped,
\* dropped or de-duplicated
RECURSIVE order_loop(_, _)
order_loop(tokens, drivers) ==
    IF tokens = <<>> THEN drivers
    ELSE IF Head(tokens) \notin {<<"*">>, <<"/">>}
         THEN order_loop(Tail(tokens), Append(drivers, Head(tokens)))
         ELSE order_loop(Tail(tokens), drivers)

get_drivers_in_formula_order(formula) == order_loop(ReSplitOps(formula), <<>>)

\* what a call of evaluate_formula ends with: a returned value (the quotient
\* num / den, kept exact), or an exception with its message and, for a
\* missing driver, the name in the message
Outcome(kind, msg, name, num, den) ==
    [kind |-> kind, msg |-> msg, name |-> name, num |-> num, den |-> den]

NoOutcome == Outcome("none", "", <<>>, 0, 1)

\* product_loop that passes over a name without a value instead of raising
RECURSIVE product_loop_skips_missing(_, _, _)
product_loop_skips_missing(names, vals, product) ==
    IF names = <<>> THEN [raised |-> FALSE, name |-> <<>>, product |-> product]
    ELSE IF Head(names) \in DOMAIN vals
         THEN product_loop_skips_missing(Tail(names), vals,
                                         product * vals[Head(names)])
         ELSE product_loop_skips_missing(Tail(names), vals, product)

\* the two loops of evaluate_formula: the product of the values of the
\* names, stopped by the first name that is not in vals
RECURSIVE product_loop(_, _, _)
product_loop(names, vals, product) ==
    IF names = <<>> THEN [raised |-> FALSE, name |-> <<>>, product |-> product]
    ELSE IF Head(names) \in DOMAIN vals
         THEN product_loop(Tail(names), vals, product * vals[Head(names)])
         ELSE [raised |-> TRUE, name |-> Head(names), product |-> product]

\* evaluate_formula without the test of the denominator product: the
\* division itself raises
evaluate_formula_divides_unchecked(formula, vals, fdict) ==
    LET formula_expr == IF fdict # <<>> /\ formula \in DOMAIN fdict
                        THEN fdict[formula] ELSE formula
        parsed == parse_formula(formula_expr)
        n == product_loop(parsed.numerators, vals, 1)
        d == product_loop(parsed.denominators, vals, 1)
    IN  IF n.raised
        THEN Outcome("ValueError", "Missing driver value", n.name, 0, 1)
        ELSE IF d.raised
        THEN Outcome("ValueError", "Missing driver value", d.name, 0, 1)
        ELSE IF d.product = 0
        THEN Outcome("ZeroDivisionError", "float division by zero", <<>>, 0, 1)
        ELSE Outcome("value", "", <<>>, n.product, d.product)

\* evaluate_formula with the two loops the other way round: the
\* denominators are looked up before the numerators
evaluate_formula_denominators_first(formula, vals, fdict) ==
    LET formula_expr == IF fdict # <<>> /\ formula \in DOMAIN fdict
                        THEN fdict[formula] ELSE formula
        parsed == parse_formula(formula_expr)
        n == product_loop(parsed.numerators, vals, 1)
        d == product_loop(parsed.denominators, vals, 1)
    IN  IF d.raised
        THEN Outcome("ValueError", "Missing driver value", d.name, 0, 1)
        ELSE IF n.raised
        THEN Outcome("ValueError", "Missing driver value", n.name, 0, 1)
        ELSE IF d.product = 0
        THEN Outcome("ValueError", "Division by zero", <<>>, 0, 1)
        ELSE Outcome("value", "", <<>>, n.product, d.product)

\* evaluate_formula(formula, values, formulas_dict); fdict = <<>> is None or
\* the empty dict, both false in "if formulas_dict and ..."
evaluate_formula(formula, vals, fdict) ==
    LET formula_expr == IF fdict # <<>> /\ formula \in DOMAIN fdict
                        THEN fdict[formula] ELSE formula
        parsed == parse_formula(formula_expr)
        n == product_loop(parsed.numerators, vals, 1)
        d == product_loop(parsed.denominators, vals, 1)
    IN  IF n.raised
        THEN Outcome("ValueError", "Missing driver value", n.name, 0, 1)
        ELSE IF d.raised
        THEN Outcome("ValueError", "Missing driver value", d.name, 0, 1)
        ELSE IF d.product = 0
        THEN Outcome("ValueError", "Division by zero", <<>>, 0, 1)
        ELSE Outcome("value", "", <<>>, n.product, d.product)

\* the call app.py makes: evaluate_formula(metric_name, t0,
\* numerators=..., denominators=..., multiplier=...). The function has no
\* such parameters, so the call raises TypeError before its body runs.
evaluate_formula_keywords(formula, vals, kw) ==
    Outcome("TypeError", "unexpected keyword argument", <<>>, 0, 1)

NoKwargs ==
    [given |-> FALSE, numerators |-> <<>>, denominators |-> <<>>, multiplier |-> 1]

(***************************************************************************)
(* Floating-point numbers                                                  *)
(*                                                                         *)
(* A float is <<n, d>>: the exact quotient n / d in lowest terms with      *)
(* d > 0, or <<1, 0>> for +inf, <<-1, 0>> for -inf and <<0, 0>> for nan.   *)
(* Rounding is not modelled. The operations are those of numpy, which      *)
(* returns inf or nan where Python's own division raises.                  *)
(***************************************************************************)
Abs(x) == IF x < 0 THEN -x ELSE x

Sign(x) == IF x > 0 THEN 1 ELSE IF x < 0 THEN -1 ELSE 0

RECURSIVE GCD(_, _)
GCD(a, b) == IF b = 0 THEN a ELSE GCD(b, a % b)

Num(n, d) ==
    IF d = 0 THEN <<Sign(n), 0>>
    ELSE LET g == GCD(Abs(n), Abs(d))
         IN  <<Sign(n) * Sign(d) * (Abs(n) \div g), Abs(d) \div g>>

Float(v) == <<v, 1>>

NaN == <<0, 0>>

Neg(x) == <<-x[1], x[2]>>

Add(a, b) ==
    IF a[2] = 0 /\ b[2] = 0 THEN (IF a = b THEN a ELSE NaN)
    ELSE IF a[2] = 0 THEN a
    ELSE IF b[2] = 0 THEN b
    ELSE Num(a[1] * b[2] + b[1] * a[2], a[2] * b[2])

Sub(a, b) == Add(a, Neg(b))

Mul(a, b) == IF a = NaN \/ b = NaN THEN NaN ELSE Num(a[1] * b[1], a[2] * b[2])

\* 1 / b; the sign of a zero is not modelled, 1 / 0 is +inf
Inv(b) ==
    IF b = NaN THEN NaN
    ELSE IF b[1] = 0 THEN <<1, 0>>
    ELSE Num(b[2], b[1])

\* numpy's division of floats: x / 0 is inf or nan, nothing is raised
Div(a, b) == Mul(a, Inv(b))

\* x >= 0, false for nan
GeqZero(x) == x # NaN /\ x[1] >= 0

\* abs(x)
Fabs(x) == <<Abs(x[1]), x[2]>>

\* a < b, false when either is nan
Less(a, b) ==
    IF a = NaN \/ b = NaN THEN FALSE
    ELSE IF a[2] = 0 /\ b[2] = 0 THEN a[1] < b[1]
    ELSE a[1] * b[2] < b[1] * a[2]

\* Python's max(a, b): b only if b > a, so a nan in front stays
Max(a, b) == IF Less(a, b) THEN b ELSE a

\* floor of n / d for d > 0
Floor(n, d) == IF n >= 0 THEN n \div d ELSE -((-n + d - 1) \div d)

\* f"{x:.2f}": x rounded to hundredths, ties to the even digit; inf and nan
\* are printed as they are
Format2(x) ==
    IF x[2] = 0 THEN x
    ELSE LET lo   == Floor(x[1] * 100, x[2])
             twice == 2 * (x[1] * 100 - lo * x[2])
             q    == IF twice > x[2] \/ (twice = x[2] /\ lo % 2 = 1)
                     THEN lo + 1 ELSE lo
         IN  Num(q, 100)

\* the exponent of a power of two
RECURSIVE Log2(_)
Log2(n) == IF n <= 1 THEN 0 ELSE 1 + Log2(n \div 2)

RECURSIVE Power(_, _)
Power(b, e) == IF e = 0 THEN 1 ELSE b * Power(b, e - 1)

\* np.log, in units of ln 2: exact on the quotients of powers of two; for
\* any other quotient the logs of numerator and denominator are each cut
\* to a multiple of 1 / LogPrecision; -inf at 0 and nan below 0
Log(x) ==
    IF x = NaN THEN NaN
    ELSE IF x[2] = 0 THEN (IF x[1] > 0 THEN x ELSE NaN)
    ELSE IF x[1] < 0 THEN NaN
    ELSE IF x[1] = 0 THEN <<-1, 0>>
    ELSE Num(Log2(Power(x[1], LogPrecision)) - Log2(Power(x[2], LogPrecision)),
             LogPrecision)

\* pandas Series.sum(): nan entries are skipped (skipna=True)
RECURSIVE Sum(_)
Sum(xs) ==
    IF xs = <<>> THEN Float(0)
    ELSE IF Head(xs) = NaN THEN Sum(Tail(xs))
    ELSE Add(Head(xs), Sum(Tail(xs)))

(***************************************************************************)
(* src/src/decomposition.py                                                *)
(***************************************************************************)
NoOutcomeInfo ==
    [metric_name |-> <<>>, time0_value |-> Float(0), time1_value |-> Float(0),
     absolute_change |-> Float(0), percentage_points_change |-> Float(0),
     sum_absolute_contributions |-> Float(0), sum_ppt_contributions |-> Float(0)]

Failed(exception) ==
    [raised |-> exception, drivers_df |-> <<>>, outcome_info |-> NoOutcomeInfo]

\* does t1[d] / t0[d] raise: a key is missing or the divisor is zero
DivisionRaises(d, time0, time1) ==
    \/ d \notin DOMAIN time1
    \/ d \notin DOMAIN time0
    \/ time0[d] = 0

DivisionError(d, time0, time1) ==
    IF d \notin DOMAIN time1 \/ d \notin DOMAIN time0
    THEN "KeyError" ELSE "ZeroDivisionError"

\* +log for a numerator, -log for every other driver
log_driver(driver, growth_factor, nums) ==
    IF driver \in Range(nums) THEN Log(growth_factor) ELSE Neg(Log(growth_factor))

\* total_log with the magnitudes of the log terms summed instead of the
\* signed terms
total_log_of_magnitudes(logs) ==
    Sum([i \in 1..Len(logs) |-> IF GeqZero(logs[i]) THEN logs[i] ELSE Neg(logs[i])])

\* total_log = df["log_driver"].sum()
total_log(logs) == Sum(logs)

\* driver_list with the two groups the other way round
driver_list_denominators_first(nums, dens) == dens \o nums

\* drivers = numerators + denominators
driver_list(nums, dens) == nums \o dens

\* metric_abs_change with the two times the other way round
metric_abs_change_reversed(metric, time0, time1) ==
    Float(time0[metric] - time1[metric])

\* metric_abs_change = t1[metric_name] - t0[metric_name]
metric_abs_change(metric, time0, time1) == Float(time1[metric] - time0[metric])

multiplicative_contribution(metric, time0, time1, nums, dens) ==
    LET drivers == driver_list(nums, dens)
        n       == Len(drivers)
        failing == {i \in 1..n : DivisionRaises(drivers[i], time0, time1)}
        g       == [i \in 1..n |-> Num(time1[drivers[i]], time0[drivers[i]])]
        pct     == [i \in 1..n |->
                       Num(time1[drivers[i]] - time0[drivers[i]], time0[drivers[i]])]
        logs    == [i \in 1..n |-> log_driver(drivers[i], g[i], nums)]
        total   == total_log(logs)
        share   == [i \in 1..n |-> Div(logs[i], total)]
        metric_f          == Num(time1[metric], time0[metric])
        metric_pct_change == Mul(Sub(metric_f, Float(1)), Float(100))
        abs_change        == metric_abs_change(metric, time0, time1)
        ppt     == [i \in 1..n |-> Mul(share[i], metric_pct_change)]
        contrib == [i \in 1..n |-> Mul(share[i], abs_change)]
    IN  IF failing # {}
        THEN Failed(DivisionError(drivers[Min(failing)], time0, time1))
        ELSE IF DivisionRaises(metric, time0, time1)
        THEN Failed(DivisionError(metric, time0, time1))
        ELSE [raised |-> "",
              drivers_df |->
                 [i \in 1..n |->
                    [metric |-> drivers[i],
                     time0_value |-> Float(time0[drivers[i]]),
                     time1_value |-> Float(time1[drivers[i]]),
                     growth_factor |-> g[i],
                     pct_change |-> pct[i],
                     log_driver |-> logs[i],
                     log_share |-> share[i],
                     percentage_points_contribution |-> ppt[i],
                     absolute_contribution |-> contrib[i],
                     direction_label |-> IF GeqZero(contrib[i])
                                         THEN "positive" ELSE "negative"]],
              outcome_info |->
                 [metric_name |-> metric,
                  time0_value |-> Float(time0[metric]),
                  time1_value |-> Float(time1[metric]),
                  absolute_change |-> abs_change,
                  percentage_points_change |-> metric_pct_change,
                  sum_absolute_contributions |-> Sum(contrib),
                  sum_ppt_contributions |-> Sum(ppt)]]

\* decompose(metric_name, t0, t1, formulas_dict)
decompose(metric, time0, time1, fdict) ==
    IF metric \notin DOMAIN fdict
    THEN [result |-> Failed("ValueError"), numerators |-> <<>>, denominators |-> <<>>]
    ELSE LET parsed == parse_formula(fdict[metric])
         IN  [result |-> multiplicative_contribution(
                            metric, time0, time1,
                            parsed.numerators, parsed.denominators),
              numerators |-> parsed.numerators,
              denominators |-> parsed.denominators]

(***************************************************************************)
(* src/src/utils.py                                                        *)
(***************************************************************************)
\* rounding_tolerance=None
NoTolerance == <<>>

\* the error message: the text is fixed, its three fields are the metric
\* name and the two differences with two decimals; "" is <<>>
ErrorMessage(name, abs_diff, ppt_diff) ==
    <<name, Format2(abs_diff), Format2(ppt_diff)>>

\* validate_decomposition without the test of the percentage points
validate_decomposition_ignores_ppt(df, info, tolerance) ==
    LET tol == IF tolerance = NoTolerance
               THEN Max(Mul(Fabs(info.absolute_change), Num(1, 1000)), Num(1, 100))
               ELSE tolerance
        abs_diff == Fabs(Sub(info.sum_absolute_contributions, info.absolute_change))
        ppt_diff == Fabs(Sub(info.sum_ppt_contributions,
                             info.percentage_points_change))
    IN  IF ~Less(abs_diff, tol)
        THEN [is_valid |-> FALSE,
              error_msg |-> ErrorMessage(info.metric_name, abs_diff, ppt_diff)]
        ELSE [is_valid |-> TRUE, error_msg |-> <<>>]

\* validate_decomposition whose default tolerance has no floor of 0.01: it
\* is |absolute_change| * 0.001 alone
validate_decomposition_without_floor(df, info, tolerance) ==
    LET tol == IF tolerance = NoTolerance
               THEN Mul(Fabs(info.absolute_change), Num(1, 1000))
               ELSE tolerance
        abs_diff == Fabs(Sub(info.sum_absolute_contributions, info.absolute_change))
        ppt_diff == Fabs(Sub(info.sum_ppt_contributions,
                             info.percentage_points_change))
    IN  IF ~(Less(abs_diff, tol) /\ Less(ppt_diff, Num(1, 100)))
        THEN [is_valid |-> FALSE,
              error_msg |-> ErrorMessage(info.metric_name, abs_diff, ppt_diff)]
        ELSE [is_valid |-> TRUE, error_msg |-> <<>>]

\* validate_decomposition(drivers_df, outcome_info, rounding_tolerance)
validate_decomposition(df, info, tolerance) ==
    LET tol == IF tolerance = NoTolerance
               THEN Max(Mul(Fabs(info.absolute_change), Num(1, 1000)), Num(1, 100))
               ELSE tolerance
        abs_diff == Fabs(Sub(info.sum_absolute_contributions, info.absolute_change))
        abs_check_passed == Less(abs_diff, tol)
        ppt_diff == Fabs(Sub(info.sum_ppt_contributions,
                             info.percentage_points_change))
        ppt_check_passed == Less(ppt_diff, Num(1, 100))
    IN  IF ~(abs_check_passed /\ ppt_check_passed)
        THEN [is_valid |-> FALSE,
              error_msg |-> ErrorMessage(info.metric_name, abs_diff, ppt_diff)]
        ELSE [is_valid |-> TRUE, error_msg |-> <<>>]

\* validate_decomposition has not been called
NoValidation ==
    /\ rounding_tolerance = NoTolerance
    /\ is_valid = FALSE
    /\ error_msg = <<>>

\* no decomposition has been asked for
NoDecomposition ==
    /\ NoValidation
    /\ metric_name = <<>>
    /\ t0 = <<>>
    /\ t1 = <<>>
    /\ raised = ""
    /\ drivers_df = <<>>
    /\ outcome_info = NoOutcomeInfo

(***************************************************************************)
(* The formulas the parser is applied to                                   *)
(***************************************************************************)
Spend == <<"S", "p", "e", "n", "d">>
CPA   == <<"C", "P", "A">>
AOV   == <<"A", "O", "V">>
CPM   == <<"C", "P", "M">>
CTR   == <<"C", "T", "R">>
CVR   == <<"C", "V", "R">>

Sp == <<" ">>

\* "Spend / CPA * AOV"
SalesFormula == Spend \o Sp \o <<"/">> \o Sp \o CPA \o Sp \o <<"*">> \o Sp \o AOV
\* "CPM / (CTR * CVR * 1000)"
CpaFormula ==
    CPM \o Sp \o <<"/">> \o Sp \o <<"(">> \o CTR \o Sp \o <<"*">> \o Sp \o CVR
        \o Sp \o <<"*">> \o Sp \o <<"1", "0", "0", "0">> \o <<")">>
\* "A * B / C * D"
ComplexFormula ==
    <<"A", " ", "*", " ", "B", " ", "/", " ", "C", " ", "*", " ", "D">>
\* "A / B / (C * D)"
TwoDivisionsFormula ==
    <<"A", " ", "/", " ", "B", " ", "/", " ", "(", "C", " ", "*", " ", "D", ")">>
\* "CPM / (CTR * CVR * 1000) * X * 2"
TrailingFormula == CpaFormula \o <<" ", "*", " ", "X", " ", "*", " ", "2">>
\* "0.5 * A / 1.5 / B"
DecimalFormula ==
    <<"0", ".", "5", " ", "*", " ", "A", " ", "/", " ", "1", ".", "5", " ", "/", " ", "B">>

ExampleFormulas ==
    {SalesFormula, CpaFormula, ComplexFormula, TwoDivisionsFormula,
     TrailingFormula, DecimalFormula}

\* every string of at most MaxLen characters of the alphabet
BoundedFormulas == UNION {[1..n -> Alphabet] : n \in 0..MaxLen}

Formulas == BoundedFormulas \cup ExampleFormulas

(***************************************************************************)
(* Parser specification: a formula is given, then parsed or listed         *)
(***************************************************************************)
InitParse ==
    /\ expr \in Formulas
    /\ pc = "start"
    /\ numerators = <<>>
    /\ denominators = <<>>
    /\ drivers_in_order = <<>>
    /\ values = <<>>
    /\ formulas_dict = <<>>
    /\ kwargs = NoKwargs
    /\ outcome = NoOutcome
    /\ NoDecomposition

ParseFormula ==
    /\ pc = "start"
    /\ pc' = "parsed"
    /\ numerators' = parse_formula(expr).numerators
    /\ denominators' = parse_formula(expr).denominators
    /\ UNCHANGED <<expr, drivers_in_order, eval_vars, decomp_vars, valid_vars>>

GetDriversInFormulaOrder ==
    /\ pc = "start"
    /\ pc' = "ordered"
    /\ drivers_in_order' = get_drivers_in_formula_order(expr)
    /\ UNCHANGED <<expr, numerators, denominators, eval_vars, decomp_vars, valid_vars>>

NextParse == ParseFormula \/ GetDriversInFormulaOrder

SpecParse == InitParse /\ [][NextParse]_vars

(***************************************************************************)
(* Properties of the parser                                                *)
(***************************************************************************)
NoParens(s) == \A i \in 1..Len(s) : s[i] \notin {"(", ")"}

\* The operands of s when it is cut at the characters of ops, by position:
\* an operand starts at 1 and behind every cut character, and ends in front
\* of the next cut character or at the end of s.
OperandStarts(s, ops) == {1} \cup {i + 1 : i \in {k \in 1..Len(s) : s[k] \in ops}}

OperandEnd(s, p, ops) ==
    IF \E q \in p..Len(s) : s[q] \in ops
    THEN (CHOOSE q \in p..Len(s) :
             /\ s[q] \in ops
             /\ \A r \in p..(q - 1) : s[r] \notin ops) - 1
    ELSE Len(s)

OperandText(s, p, ops) == SubSeq(s, p, OperandEnd(s, p, ops))

\* the operand as a driver name
NameAt(s, p, ops) == Strip(OperandText(s, p, ops))

\* the operator in front of the operand; the first operand has none and
\* counts as multiplied
OperatorBefore(s, p) == IF p = 1 THEN "*" ELSE s[p - 1]

IsName(tok) == tok # <<>> /\ ~IsFloat(tok)

\* the names at the positions P, left to right
RECURSIVE NamesInOrder(_, _, _)
NamesInOrder(s, P, ops) ==
    IF P = {} THEN <<>>
    ELSE <<NameAt(s, Min(P), ops)>> \o NamesInOrder(s, P \ {Min(P)}, ops)

NamePositions(s, ops) ==
    {p \in OperandStarts(s, ops) : IsName(NameAt(s, p, ops))}

Multiplied(s) == {p \in NamePositions(s, OpChars) : OperatorBefore(s, p) = "*"}
Divided(s)    == {p \in NamePositions(s, OpChars) : OperatorBefore(s, p) = "/"}

\* C1: for a formula without parentheses, every non-numeric token is a
\* numerator when the operator in front of it is '*' (or it is the first
\* operand) and a denominator when that operator is '/', each list in order
\* of appearance; so the two lists together hold exactly the non-numeric
\* tokens of the formula.
C1_SimpleFormulaClassification ==
    (pc = "parsed" /\ NoParens(expr)) =>
        /\ numerators = NamesInOrder(expr, Multiplied(expr), OpChars)
        /\ denominators = NamesInOrder(expr, Divided(expr), OpChars)
        /\ Range(numerators) \cup Range(denominators)
              = {NameAt(expr, p, OpChars) : p \in NamePositions(expr, OpChars)}

\* C1 witness: "Spend / CPA * AOV" parsed (test_parse_formula_basic)
C1_Witness ==
    /\ pc = "parsed"
    /\ expr = SalesFormula
    /\ numerators = <<Spend, AOV>>
    /\ denominators = <<CPA>>

\* the parenthesized groups that directly follow a division: <<i, j, k>> with
\* '/' at i, only white space up to '(' at j, and the first ')' behind j at k
DivisionGroups(s) ==
    {t \in (1..Len(s)) \X (1..Len(s)) \X (1..Len(s)) :
        /\ t[1] < t[2] /\ t[2] < t[3]
        /\ s[t[1]] = "/" /\ s[t[2]] = "(" /\ s[t[3]] = ")"
        /\ \A m \in (t[1] + 1)..(t[2] - 1) : IsSpace(s[m])
        /\ \A m \in (t[2] + 1)..(t[3] - 1) : s[m] # ")"}

FirstGroup(s) ==
    CHOOSE t \in DivisionGroups(s) : \A u \in DivisionGroups(s) : t[1] <= u[1]

GroupText(s) == SubSeq(s, FirstGroup(s)[2] + 1, FirstGroup(s)[3] - 1)

\* C2: when a division is directly followed by a parenthesized group, the
\* denominators are the non-numeric tokens of the group, cut at '*' only, left
\* to right, without the group's constants; "CPM / (CTR * CVR * 1000)" gives
\* numerators [CPM] and denominators [CTR, CVR].
C2_GroupIsDenominators ==
    (pc = "parsed" /\ DivisionGroups(expr) # {}) =>
        /\ denominators = NamesInOrder(GroupText(expr),
                                       NamePositions(GroupText(expr), {"*"}), {"*"})
        /\ expr = CpaFormula => (numerators = <<CPM>> /\ denominators = <<CTR, CVR>>)

\* C2 witness: "CPM / (CTR * CVR * 1000)" parsed, the constant 1000 dropped
C2_Witness ==
    /\ pc = "parsed"
    /\ expr = CpaFormula
    /\ denominators = <<CTR, CVR>>

\* C3: every element of the two lists is a non-empty token that does not
\* parse as a number, whatever the input string.
C3_NamesAreNonEmptyNonNumeric ==
    pc = "parsed" =>
        \A x \in Range(numerators) \cup Range(denominators) :
            /\ x # <<>>
            /\ x = Strip(x)
            /\ ~IsFloat(x)

\* C3 witness: a parsed formula with a constant and an empty token (double,
\* leading or trailing operator) next to a driver
C3_Witness ==
    /\ pc = "parsed"
    /\ \E p \in OperandStarts(expr, OpChars) : IsFloat(NameAt(expr, p, OpChars))
    /\ \E p \in OperandStarts(expr, OpChars) : NameAt(expr, p, OpChars) = <<>>
    /\ Len(numerators) + Len(denominators) > 0

\* a chain of non-empty operands (names or constants) joined by '*' and '/',
\* without parentheses
IsChain(s) ==
    /\ NoParens(s)
    /\ \A p \in OperandStarts(s, OpChars) : NameAt(s, p, OpChars) # <<>>

\* C4: the numerators and the denominators of a parsed formula are disjoint:
\* no driver is in both lists. Stated for the plain chains of the data model;
\* the formulas with a parenthesized group are not needed to decide it.
C4_ListsDisjoint ==
    (pc = "parsed" /\ IsChain(expr)) =>
        Range(numerators) \cap Range(denominators) = {}

\* the operand as get_drivers_in_formula_order reports it: white space is
\* removed only where it touches an operator
RawAt(s, p) ==
    LET q == OperandEnd(s, p, OpChars)
        t == OperandText(s, p, OpChars)
        l == IF p > 1 THEN LStrip(t) ELSE t
    IN  IF q < Len(s) THEN RStrip(l) ELSE l

RECURSIVE RawInOrder(_, _)
RawInOrder(s, P) ==
    IF P = {} THEN <<>>
    ELSE <<RawAt(s, Min(P))>> \o RawInOrder(s, P \ {Min(P)})

Sales == <<"S", "a", "l", "e", "s">>

\* "Spend * AOV"
ProductFormula == Spend \o <<" ", "*", " ">> \o AOV
\* "1000 / CPA"
InverseFormula == <<"1", "0", "0", "0", " ", "/", " ">> \o CPA
\* "AOV / (CPA * Spend * 1000)"
GroupFormula ==
    AOV \o <<" ", "/", " ", "(">> \o CPA \o <<" ", "*", " ">> \o Spend
        \o <<" ", "*", " ", "1", "0", "0", "0", ")">>
\* "CPA / CPA"
RatioFormula == CPA \o <<" ", "/", " ">> \o CPA

EvalFormulas ==
    {SalesFormula, ProductFormula, InverseFormula, GroupFormula, RatioFormula,
     <<"2">>}

\* a formulas dictionary as test_decomposition.py builds it
FORMULAS == [m \in {Sales} |-> SalesFormula]

EvalDrivers == {Spend, CPA, AOV}

ValueMaps == UNION {[D -> 0..MaxVal] : D \in SUBSET EvalDrivers}

\* the formulas of the configuration as app.py reads them: explicit lists
\* and a multiplier
ConfigEntries ==
    {[given |-> TRUE, numerators |-> <<Spend, AOV>>, denominators |-> <<CPA>>,
      multiplier |-> 1],
     [given |-> TRUE, numerators |-> <<Spend>>, denominators |-> <<CPA>>,
      multiplier |-> 1000]}

InitEval ==
    /\ expr \in EvalFormulas \cup {Sales}
    /\ values \in ValueMaps
    /\ formulas_dict \in {<<>>, FORMULAS}
    /\ kwargs = NoKwargs
    /\ outcome = NoOutcome
    /\ pc = "start"
    /\ numerators = <<>>
    /\ denominators = <<>>
    /\ drivers_in_order = <<>>
    /\ NoDecomposition

\* evaluate_formula(formula, values) / evaluate_formula(formula, values, d)
EvaluateFormula ==
    /\ pc = "start"
    /\ pc' = "evaluated"
    /\ outcome' = evaluate_formula(expr, values, formulas_dict)
    /\ UNCHANGED <<expr, parse_vars, values, formulas_dict, kwargs, decomp_vars, valid_vars>>

\* app.py: evaluate_formula(metric_name, t0, numerators=numerators,
\* denominators=denominators, multiplier=multiplier)
EvaluateFormulaFromApp ==
    /\ pc = "start"
    /\ expr = Sales
    /\ formulas_dict = <<>>
    /\ \E kw \in ConfigEntries :
          \* t0 and t1 hold a value for exactly the drivers of the formula
          /\ DOMAIN values = Range(kw.numerators) \cup Range(kw.denominators)
          /\ kwargs' = kw
          /\ outcome' = evaluate_formula_keywords(expr, values, kw)
    /\ pc' = "evaluated"
    /\ UNCHANGED <<expr, parse_vars, values, formulas_dict, decomp_vars, valid_vars>>

\* the calls that bind to the parameters of evaluate_formula
NextEval == EvaluateFormula

SpecEval == InitEval /\ [][NextEval]_vars

\* those calls and the calls of app.py
NextEvalApp == EvaluateFormula \/ EvaluateFormulaFromApp

SpecEvalApp == InitEval /\ [][NextEvalApp]_vars

(***************************************************************************)
(* Properties of the evaluator                                             *)
(***************************************************************************)
\* the formula that is evaluated: the entry of the dictionary when the
\* argument names one
TheFormula ==
    IF formulas_dict # <<>> /\ expr \in DOMAIN formulas_dict
    THEN formulas_dict[expr] ELSE expr

\* the drivers the call lists: the keyword lists when they are passed, the
\* drivers of the formula otherwise
ListedNumerators ==
    IF kwargs.given THEN kwargs.numerators ELSE parse_formula(TheFormula).numerators
ListedDenominators ==
    IF kwargs.given THEN kwargs.denominators ELSE parse_formula(TheFormula).denominators

MissingDrivers ==
    (Range(ListedNumerators) \cup Range(ListedDenominators)) \ DOMAIN values

\* product of values[n] over the names of a list, 1 for the empty list
RECURSIVE ProductOver(_)
ProductOver(names) ==
    IF names = <<>> THEN 1 ELSE values[names[Len(names)]]
                                  * ProductOver(SubSeq(names, 1, Len(names) - 1))

\* C6: with every listed driver present and a denominator product that is
\* not zero, the evaluator returns (product of the numerator values /
\* product of the denominator values) * multiplier, the multiplier being 1
\* when none is passed.
C6_ReturnsQuotientTimesMultiplier ==
    (/\ pc = "evaluated"
     /\ MissingDrivers = {}
     /\ ProductOver(ListedDenominators) # 0) =>
        /\ outcome.kind = "value"
        /\ outcome.num * ProductOver(ListedDenominators)
              = ProductOver(ListedNumerators) * kwargs.multiplier * outcome.den

\* C7: when a numerator or denominator driver of the formula has no entry in
\* values, the call fails with the "Missing driver value" error, the error
\* names a driver that is absent, and no value is returned.
C7_MissingDriverIsReported ==
    (pc = "evaluated" /\ MissingDrivers # {}) =>
        /\ outcome.kind = "ValueError"
        /\ outcome.msg = "Missing driver value"
        /\ outcome.name \in MissingDrivers

\* C7 witness: "Spend / CPA * AOV" evaluated without a value for AOV
\* (test_evaluate_formula_missing_value)
C7_Witness ==
    /\ pc = "evaluated"
    /\ expr = SalesFormula
    /\ DOMAIN values = {Spend, CPA}
    /\ outcome.name = AOV

\* C8: when every listed driver is present and one of the denominator values
\* is zero (the denominator product is exactly zero), the call fails with
\* the "Division by zero" error, which is not the missing-driver error, and
\* no value is returned.
C8_ZeroDenominatorIsReported ==
    (/\ pc = "evaluated"
     /\ MissingDrivers = {}
     /\ \E d \in Range(ListedDenominators) : values[d] = 0) =>
        /\ outcome.kind = "ValueError"
        /\ outcome.msg = "Division by zero"
        /\ outcome.msg # "Missing driver value"

\* C8 witness: "Spend / CPA * AOV" evaluated with CPA = 0 and the other
\* drivers present (test_evaluate_formula_division_by_zero)
C8_Witness ==
    /\ pc = "evaluated"
    /\ expr = SalesFormula
    /\ DOMAIN values = {Spend, CPA, AOV}
    /\ values[CPA] = 0
    /\ values[Spend] > 0
    /\ outcome.msg = "Division by zero"

(***************************************************************************)
(* Decomposition specification: decompose is called for a metric whose     *)
(* formula is in the dictionary, with values for the metric and the        *)
(* drivers at both times                                                   *)
(***************************************************************************)
Metric == <<"M">>

\* "A", "A * B", "A / B", "1 / B", "A / A"
DecompFormulas ==
    {<<"A">>,
     <<"A", " ", "*", " ", "B">>,
     <<"A", " ", "/", " ", "B">>,
     <<"1", " ", "/", " ", "B">>,
     <<"A", " ", "/", " ", "A">>}

\* t0 and t1 have a value for the metric and for every driver of the formula
DecompKeys(f) ==
    {Metric} \cup {NameAt(f, p, OpChars) : p \in NamePositions(f, OpChars)}

RECURSIVE Pow2(_)
Pow2(k) == IF k = 0 THEN 1 ELSE 2 * Pow2(k - 1)

DecompValues == {-1, 0} \cup {Pow2(k) : k \in 0..MaxExp}

InitDecomp ==
    /\ metric_name = Metric
    /\ formulas_dict \in {[m \in {Metric} |-> f] : f \in DecompFormulas}
    /\ t0 \in [DecompKeys(formulas_dict[Metric]) -> DecompValues]
    /\ t1 \in [DecompKeys(formulas_dict[Metric]) -> DecompValues]
    /\ raised = ""
    /\ drivers_df = <<>>
    /\ outcome_info = NoOutcomeInfo
    /\ NoValidation
    /\ pc = "start"
    /\ expr = <<>>
    /\ numerators = <<>>
    /\ denominators = <<>>
    /\ drivers_in_order = <<>>
    /\ values = <<>>
    /\ kwargs = NoKwargs
    /\ outcome = NoOutcome

\* drivers_df, outcome_info = decompose(metric_name, t0, t1, formulas)
Decompose ==
    /\ pc = "start"
    /\ pc' = "decomposed"
    /\ LET r == decompose(metric_name, t0, t1, formulas_dict)
       IN  /\ numerators' = r.numerators
           /\ denominators' = r.denominators
           /\ raised' = r.result.raised
           /\ drivers_df' = r.result.drivers_df
           /\ outcome_info' = r.result.outcome_info
    /\ UNCHANGED <<expr, drivers_in_order, eval_vars, metric_name, t0, t1,
                   valid_vars>>

NextDecomp == Decompose

SpecDecomp == InitDecomp /\ [][NextDecomp]_vars

(***************************************************************************)
(* Properties of the decomposition                                         *)
(***************************************************************************)
\* the sum of a column, nothing skipped
RECURSIVE Total(_)
Total(xs) == IF xs = <<>> THEN Float(0) ELSE Add(Head(xs), Total(Tail(xs)))

Column(name) == [i \in 1..Len(drivers_df) |-> drivers_df[i][name]]

Positive(x) == x[1] > 0 /\ x[2] > 0

\* the decomposition returned, every growth factor is positive and the log
\* terms do not add up to zero
ValidDecomposition ==
    /\ pc = "decomposed"
    /\ raised = ""
    /\ \A i \in 1..Len(drivers_df) : Positive(drivers_df[i].growth_factor)
    /\ Total(Column("log_driver")) # Float(0)

\* C9: with positive growth factors and a total_log that is not zero, the
\* log shares of the rows add up to 1, the absolute contributions add up to
\* the change of the metric, t1[metric] - t0[metric], and the percentage
\* point contributions add up to (t1[metric] / t0[metric] - 1) * 100,
\* exactly; the sums of the outcome info are these sums.
C9_ContributionsReconcileExactly ==
    ValidDecomposition =>
        /\ Total(Column("log_share")) = Float(1)
        /\ Total(Column("absolute_contribution"))
              = Float(t1[metric_name] - t0[metric_name])
        /\ Total(Column("percentage_points_contribution"))
              = Num((t1[metric_name] - t0[metric_name]) * 100, t0[metric_name])
        /\ outcome_info.sum_absolute_contributions = outcome_info.absolute_change
        /\ outcome_info.sum_ppt_contributions = outcome_info.percentage_points_change

\* C9 witness: a numerator and a denominator with shares other than 0 and 1
\* (one of them negative) and a metric that changed
C9_Witness ==
    /\ ValidDecomposition
    /\ Len(numerators) = 1 /\ Len(denominators) = 1
    /\ numerators # denominators
    /\ drivers_df[1].log_share \notin {Float(0), Float(1)}
    /\ ~GeqZero(drivers_df[2].log_share)
    /\ outcome_info.absolute_change # Float(0)

\* C10: the log term of a row with positive growth factor is +ln(t1/t0) when
\* its driver is a numerator and -ln(t1/t0) when its driver is a denominator.
C10_LogDriverSign ==
    (pc = "decomposed" /\ raised = "") =>
        \A i \in 1..Len(drivers_df) :
            LET d == drivers_df[i].metric
                ln == Float(Log2(Abs(t1[d])) - Log2(Abs(t0[d])))
            IN  Positive(drivers_df[i].growth_factor) =>
                   /\ d \in Range(numerators) => drivers_df[i].log_driver = ln
                   /\ d \in Range(denominators) => drivers_df[i].log_driver = Neg(ln)

\* the driver a row is expected to describe: the numerators first, then the
\* denominators, each group in the order of its list
ExpectedDriver(i) ==
    IF i <= Len(numerators) THEN numerators[i]
    ELSE denominators[i - Len(numerators)]

\* C11: the driver rows are one row per numerator followed by one row per
\* denominator, each group in the order of its list, and every row carries
\* the values of its driver at time 0 and at time 1 as they were supplied.
C11_RowsFollowTheLists ==
    (pc = "decomposed" /\ raised = "") =>
        /\ Len(drivers_df) = Len(numerators) + Len(denominators)
        /\ \A i \in 1..Len(drivers_df) :
              /\ drivers_df[i].metric = ExpectedDriver(i)
              /\ drivers_df[i].time0_value = Float(t0[ExpectedDriver(i)])
              /\ drivers_df[i].time1_value = Float(t1[ExpectedDriver(i)])

\* C11 witness: "A / B" decomposed with different values for the two drivers:
\* the row of A comes first, the row of B second
C11_Witness ==
    /\ pc = "decomposed"
    /\ raised = ""
    /\ numerators = << <<"A">> >>
    /\ denominators = << <<"B">> >>
    /\ Len(drivers_df) = 2
    /\ drivers_df[1].metric = <<"A">>
    /\ drivers_df[2].metric = <<"B">>
    /\ t0[<<"A">>] # t0[<<"B">>]
    /\ t1[<<"A">>] # t1[<<"B">>]

\* the drivers of the call: the entries of both lists
ListedDrivers == Range(numerators) \cup Range(denominators)

\* the growth factor t1[d] / t0[d] of a driver whose t0 is not zero
GrowthOf(d) == Num(t1[d], t0[d])

\* the log term the method assigns to the i-th driver: +ln for a numerator,
\* -ln for a denominator
SignedLogOf(i) ==
    IF i <= Len(numerators) THEN Log(GrowthOf(ExpectedDriver(i)))
    ELSE Neg(Log(GrowthOf(ExpectedDriver(i))))

\* a call whose growth factors are all defined and positive, for a formula
\* whose lists share no driver, and whose metric has a growth factor
PositiveGrowthCall ==
    /\ pc = "decomposed"
    /\ Range(numerators) \cap Range(denominators) = {}
    /\ t0[metric_name] # 0
    /\ \A d \in ListedDrivers : t0[d] # 0 /\ Positive(GrowthOf(d))

\* C13: when the log terms of the drivers add up to zero (the drivers moved
\* but cancel, or none moved), the decomposition fails explicitly: an error
\* is raised and no rows are returned, so no share is NaN or infinite.
C13_ZeroTotalIsRejected ==
    (/\ PositiveGrowthCall
     /\ Total([i \in 1..(Len(numerators) + Len(denominators)) |-> SignedLogOf(i)])
           = Float(0)) =>
        /\ raised # ""
        /\ drivers_df = <<>>

\* C14: when a driver's value at time 0 is zero or its growth factor is not
\* positive, the decomposition fails explicitly before a logarithm is taken:
\* an error is raised and no rows are returned, so no NaN or infinity
\* reaches log_driver, total_log or the sums.
C14_InvalidGrowthIsRejected ==
    (/\ pc = "decomposed"
     /\ metric_name \in DOMAIN formulas_dict
     /\ t0[metric_name] # 0
     /\ \E d \in ListedDrivers : t0[d] = 0 \/ ~Positive(GrowthOf(d))) =>
        /\ raised # ""
        /\ drivers_df = <<>>

(***************************************************************************)
(* Validation specification: a decomposition is asked for and, when it     *)
(* returns, validate_decomposition is called on what it returned, without  *)
(* a tolerance (as app.py does) or with one                                *)
(***************************************************************************)
\* "A / B"
QuotientFormula == <<"A", " ", "/", " ", "B">>

\* t0 and t1 of test_decompose_basic
ScenarioT0 == (Sales :> 100000 @@ Spend :> 50000 @@ CPA :> 50 @@ AOV :> 100)
ScenarioT1 == (Sales :> 40000 @@ Spend :> 30000 @@ CPA :> 60 @@ AOV :> 80)

\* None, and explicit tolerances below and above the differences of the model
Tolerances == {NoTolerance, Float(0), Float(2)}

InitValidate ==
    /\ \/ /\ metric_name = Metric
          /\ formulas_dict = [m \in {Metric} |-> QuotientFormula]
          /\ t0 \in [DecompKeys(QuotientFormula) -> DecompValues]
          /\ t1 \in [DecompKeys(QuotientFormula) -> DecompValues]
       \/ /\ metric_name = Sales
          /\ formulas_dict = FORMULAS
          /\ t0 = ScenarioT0
          /\ t1 = ScenarioT1
    /\ raised = ""
    /\ drivers_df = <<>>
    /\ outcome_info = NoOutcomeInfo
    /\ NoValidation
    /\ pc = "start"
    /\ expr = <<>>
    /\ numerators = <<>>
    /\ denominators = <<>>
    /\ drivers_in_order = <<>>
    /\ values = <<>>
    /\ kwargs = NoKwargs
    /\ outcome = NoOutcome

\* is_valid, error_msg = validate_decomposition(drivers_df, outcome_info) or
\* validate_decomposition(drivers_df, outcome_info, rounding_tolerance)
ValidateDecomposition ==
    /\ pc = "decomposed"
    /\ raised = ""
    /\ pc' = "validated"
    /\ \E tolerance \in Tolerances :
          LET r == validate_decomposition(drivers_df, outcome_info, tolerance)
          IN  /\ rounding_tolerance' = tolerance
              /\ is_valid' = r.is_valid
              /\ error_msg' = r.error_msg
    /\ UNCHANGED <<expr, parse_vars, eval_vars, decomp_vars>>

NextValidate == Decompose \/ ValidateDecomposition

SpecValidate == InitValidate /\ [][NextValidate]_vars

(***************************************************************************)
(* Properties of the outcome info and of the validator                     *)
(***************************************************************************)
Finite(x) == x[2] > 0

\* |a - b| < tol for floats, false as soon as one of them is inf or nan
Within(a, b, tol) ==
    /\ Finite(a) /\ Finite(b) /\ Finite(tol)
    /\ Abs(a[1] * b[2] - b[1] * a[2]) * tol[2] < tol[1] * a[2] * b[2]

\* the tolerance of a call that gives none: max(|absolute_change| * 0.001, 0.01)
DefaultTolerance ==
    LET c == outcome_info.absolute_change
    IN  IF Abs(c[1]) > 10 * c[2] THEN <<Abs(c[1]), 1000 * c[2]>> ELSE <<1, 100>>

\* m states |a - b| to two decimals: within half a hundredth of it, or not a
\* finite number when the difference is none
StatesDifference(m, a, b) ==
    IF Finite(a) /\ Finite(b)
    THEN /\ Finite(m)
         /\ 200 * Abs(m[1] * a[2] * b[2] - Abs(a[1] * b[2] - b[1] * a[2]) * m[2])
               <= m[2] * a[2] * b[2]
    ELSE ~Finite(m)

\* the test_decompose_basic call
ScenarioCall ==
    /\ metric_name = Sales
    /\ formulas_dict[Sales] = SalesFormula
    /\ t0 = ScenarioT0
    /\ t1 = ScenarioT1

\* C12: the outcome info of a decomposition that returned reports the metric
\* name as given, time0_value = t0[metric], time1_value = t1[metric],
\* absolute_change = t1[metric] - t0[metric] and percentage_points_change =
\* (t1[metric] / t0[metric] - 1) * 100; for "Spend / CPA * AOV" with the
\* values of test_decompose_basic the absolute change is -60000, the
\* percentage point change is -60 and the validator accepts the result.
C12_OutcomeInfoFields ==
    /\ (pc \in {"decomposed", "validated"} /\ raised = "") =>
          /\ outcome_info.metric_name = metric_name
          /\ outcome_info.time0_value = Float(t0[metric_name])
          /\ outcome_info.time1_value = Float(t1[metric_name])
          /\ outcome_info.absolute_change = Float(t1[metric_name] - t0[metric_name])
          /\ Finite(outcome_info.percentage_points_change)
          /\ outcome_info.percentage_points_change[1] * t0[metric_name]
                = (t1[metric_name] - t0[metric_name]) * 100
                     * outcome_info.percentage_points_change[2]
    /\ (pc = "validated" /\ ScenarioCall /\ rounding_tolerance = NoTolerance) =>
          /\ raised = ""
          /\ outcome_info.absolute_change = Float(-60000)
          /\ outcome_info.percentage_points_change = Float(-60)
          /\ is_valid
          /\ error_msg = <<>>

\* C12 witness: the test_decompose_basic call decomposed into three rows and
\* validated without a tolerance
C12_Witness ==
    /\ pc = "validated"
    /\ ScenarioCall
    /\ rounding_tolerance = NoTolerance
    /\ Len(drivers_df) = 3
    /\ outcome_info.absolute_change = Float(-60000)
    /\ is_valid

\* C15: validate_decomposition returns (true, "") exactly when
\* |sum_absolute_contributions - absolute_change| < tol and
\* |sum_ppt_contributions - percentage_points_change| < 0.01, tol being the
\* tolerance that was given, or max(|absolute_change| * 0.001, 0.01) when
\* none was; in every other case it returns false with a non-empty message
\* that states both differences.
C15_ValidatorVerdict ==
    pc = "validated" =>
        LET tol == IF rounding_tolerance = NoTolerance
                   THEN DefaultTolerance ELSE rounding_tolerance
            ok  == /\ Within(outcome_info.sum_absolute_contributions,
                             outcome_info.absolute_change, tol)
                   /\ Within(outcome_info.sum_ppt_contributions,
                             outcome_info.percentage_points_change, <<1, 100>>)
        IN  /\ is_valid = ok
            /\ ok => error_msg = <<>>
            /\ ~ok =>
                  /\ Len(error_msg) = 3
                  /\ StatesDifference(error_msg[2],
                                      outcome_info.sum_absolute_contributions,
                                      outcome_info.absolute_change)
                  /\ StatesDifference(error_msg[3],
                                      outcome_info.sum_ppt_contributions,
                                      outcome_info.percentage_points_change)

\* C15 witness: a result whose absolute difference is under the tolerance
\* that was given and whose percentage point difference is not: rejected
\* with a message
C15_Witness ==
    /\ pc = "validated"
    /\ rounding_tolerance = Float(2)
    /\ Within(outcome_info.sum_absolute_contributions,
              outcome_info.absolute_change, rounding_tolerance)
    /\ outcome_info.sum_absolute_contributions # outcome_info.absolute_change
    /\ ~is_valid
    /\ error_msg # <<>>

(***************************************************************************)
(* Further properties of the parser and of the evaluator                   *)
(***************************************************************************)
\* C17: a formula that references no drivers (the empty string, only
\* operators, only numeric constants) is rejected: parse_formula does not
\* return normally with two empty lists, so every parse that returned has a
\* driver in one of its lists.
C17_NoDriversIsRejected ==
    pc = "parsed" => Len(numerators) + Len(denominators) > 0

\* the text in front of the "/ (" group and the text behind its ")"
TextBefore(s) == SubSeq(s, 1, FirstGroup(s)[1] - 1)
TextAfter(s) == SubSeq(s, FirstGroup(s)[3] + 1, Len(s))

\* the non-numeric tokens of a text, cut at both operators, left to right
NamesOf(s) == NamesInOrder(s, NamePositions(s, OpChars), OpChars)

\* C18: when a division is directly followed by a parenthesized group, every
\* non-numeric token outside the group is a numerator whatever operator is in
\* front of it: the numerators are the names of the text before the "/ ("
\* followed by the names of the text after the ")", constants dropped;
\* "A / B / (C * D)" gives numerators [A, B] and denominators [C, D].
C18_OutsideGroupIsNumerators ==
    (pc = "parsed" /\ DivisionGroups(expr) # {}) =>
        /\ numerators = NamesOf(TextBefore(expr)) \o NamesOf(TextAfter(expr))
        /\ expr = TwoDivisionsFormula =>
              /\ numerators = << <<"A">>, <<"B">> >>
              /\ denominators = << <<"C">>, <<"D">> >>

\* C18 witness: "A / B / (C * D)" parsed, B behind a '/' is a numerator
C18_Witness ==
    /\ pc = "parsed"
    /\ expr = TwoDivisionsFormula
    /\ numerators = << <<"A">>, <<"B">> >>
    /\ denominators = << <<"C">>, <<"D">> >>

\* the first entry of a list that has no value
FirstMissing(names) ==
    names[Min({i \in 1..Len(names) : names[i] \notin DOMAIN values})]

\* C20: a missing driver is reported before a division by zero: when a
\* listed driver has no value the error is "Missing driver value" even if a
\* denominator that is present is 0, and the driver named is the first
\* missing numerator in list order, or the first missing denominator when no
\* numerator is missing.
C20_MissingBeforeZero ==
    (pc = "evaluated" /\ MissingDrivers # {}) =>
        /\ outcome.msg = "Missing driver value"
        /\ outcome.name =
              IF Range(ListedNumerators) \ DOMAIN values # {}
              THEN FirstMissing(ListedNumerators)
              ELSE FirstMissing(ListedDenominators)

\* C20 witness: "AOV / (CPA * Spend * 1000)" evaluated with CPA = 0 and
\* nothing else: a numerator and a denominator are missing, a denominator
\* is zero, and the numerator is the one named
C20_Witness ==
    /\ pc = "evaluated"
    /\ expr = GroupFormula
    /\ DOMAIN values = {CPA}
    /\ values[CPA] = 0
    /\ outcome.msg = "Missing driver value"
    /\ outcome.name = AOV

(***************************************************************************)
(* What the reconciliation check does not see                               *)
(***************************************************************************)
\* the call was validated without a tolerance, every growth factor of the
\* rows is positive and the log terms do not add up to zero
ValidatedByDefault ==
    /\ pc = "validated"
    /\ rounding_tolerance = NoTolerance
    /\ \A i \in 1..Len(drivers_df) : Positive(drivers_df[i].growth_factor)
    /\ Total(Column("log_driver")) # Float(0)

\* the metric value of a mapping is the value of the formula on its drivers
MetricFollows(t) ==
    LET o == evaluate_formula(formulas_dict[metric_name], t, <<>>)
    IN  /\ o.kind = "value"
        /\ o.num = t[metric_name] * o.den

\* C21: for every result of multiplicative_contribution with positive growth
\* factors and a total_log that is not zero, validate_decomposition with its
\* default tolerance returns (true, ""), whatever the metric values are: a
\* metric value that does not follow from the driver values is not detected.
C21_InconsistentMetricPasses ==
    ValidatedByDefault => (is_valid /\ error_msg = <<>>)

\* C21 witness: a validated call whose metric values follow from the drivers
\* at neither time and whose metric changed
C21_Witness ==
    /\ ValidatedByDefault
    /\ ~MetricFollows(t0)
    /\ ~MetricFollows(t1)
    /\ outcome_info.absolute_change # Float(0)
    /\ is_valid

====
